---- MODULE Spec2Model ----
(***************************************************************************)
(* A model of main.py of fake_social_data: the command line, execute(),    *)
(* generate_people(), get_random_items(), generate_reciprocal_friends()    *)
(* and the partitioned writer, as one sequential state machine whose pc    *)
(* is the position in the code.                                            *)
(*                                                                         *)
(* The global random generator is a record [seeded, state].  Before        *)
(* random.seed() is called it is seeded from OS entropy, so a draw may be  *)
(* any value of its range (a bounded sample of it is explored); after      *)
(* random.seed(s) the stream is a function of s alone, modelled by a small *)
(* linear congruential generator.                                          *)
(*                                                                         *)
(* The iteration order of a Python set of strings depends on the           *)
(* per-process string hash, so `for tag in new_tags` takes the tags in any *)
(* order.                                                                  *)
(***************************************************************************)
EXTENDS Integers, Sequences, FiniteSets, TLC

\* ---------------------------------------------------------------- bounds
\* Largest N given on the command line (Spec, SpecTwoRuns).
MaxMainN == 5
\* Largest partition count given on the command line.
MaxP == 3
\* Largest seed given on the command line.
MaxSeed == 2
\* Largest N of the runs of the unseeded generator (SpecGenerate, SpecRecip).
MaxN == 3
\* Largest friend count explored with the unseeded generator (the code's is 10).
MaxFriends == 2
\* Largest number of friend entries of a graph handed to the reciprocity pass
\* on its own (SpecRecip).
MaxEdges == 4
\* Largest item count explored with the unseeded generator (the code's is 8),
\* and the largest max_items of SpecSampler.
MaxDraws == 3
\* Number of hashtags of the list that the seeded runs draw from.
NumTags == 2
\* Number of names Faker can produce before fake.unique gives up.
NumNames == 4
\* SpecSampler: longest source list.
MaxListLen == 3

\* ------------------------------------------------------- program constants
\* The first entries of the 50 hashtags of generate_people.
Hashtags == <<"#love", "#fashion", "#photooftheday">>
\* for interaction in ["liked", "posted"]
interactions == <<"liked", "posted">>
\* get_random_items(tags, 8, 0)
TagsMaxItems == 8
TagsChanceIsEmpty == 0
\* percent_roll_check(13), percent_roll_check(50)
InteractionThreshold == 13
ReciprocalThreshold == 50
\* random.randint(0, 8), random.randint(0, 10)
MaxInteractionCount == 8
MaxNumberOfFriends == 10

\* ---------------------------------------------------------------- helpers
Min(a, b) == IF a < b THEN a ELSE b
Max(a, b) == IF a > b THEN a ELSE b
Range(s) == {s[k] : k \in 1..Len(s)}
EmptyDict == [x \in {} |-> 0]

\* list.remove(v): the list without the first occurrence of v; the ValueError
\* of an absent v is caught by the caller, which leaves the list as it is.
RemoveFirst(s, v) ==
    IF v \notin Range(s) THEN s
    ELSE LET k == CHOOSE j \in 1..Len(s) :
                      s[j] = v /\ \A m \in 1..(j - 1) : s[m] # v
         IN  SubSeq(s, 1, k - 1) \o SubSeq(s, k + 1, Len(s))

\* Python's list[a:b]: negative bounds count from the end, both are clamped.
PyClamp(len, a) == IF a < 0 THEN Max(0, len + a) ELSE Min(a, len)
PySlice(s, a, b) == SubSeq(s, PyClamp(Len(s), a) + 1, PyClamp(Len(s), b))

\* Python's list[k] as a 1-based position: a negative k counts from the end; 0
\* stands for the IndexError of a k outside the list.
PyIndex(len, k) ==
    IF 0 <= k /\ k < len THEN k + 1
    ELSE IF k < 0 /\ -k <= len THEN len + k + 1
    ELSE 0

VARIABLES
    pc, error,
    number_of_people, random_seed, number_of_partitions,
    rng, fake, tags,
    people, it, i, new_person, new_tags, tags_left, tag, kind,
    tag_interactions, friends, number_of_friends, fit,
    from_list, max_items, chance_is_empty, result, number_of_items, drawn,
    index, pos, orig, examined,
    records_per_partition, dir_created, ex_i, files, stdout,
    run, first_files

argv == <<number_of_people, random_seed, number_of_partitions>>
gen == <<rng, fake, tags>>
gpLocals == <<it, i, new_person, new_tags, tags_left, tag, kind,
              tag_interactions, friends, number_of_friends, fit>>
griLocals == <<from_list, max_items, chance_is_empty, result, number_of_items, drawn>>
grfLocals == <<index, pos, orig, examined>>
exLocals == <<records_per_partition, dir_created, ex_i, files, stdout>>
runs == <<run, first_files>>
vars == <<pc, error, argv, gen, people, gpLocals, griLocals, grfLocals, exLocals, runs>>

\* ------------------------------------------------------- random generator
\* The stream of random.seed(s): a linear congruential generator.
SeedState(s) == (s * 7919 + 104729) % 65537
NextState(x) == (x * 75 + 74) % 65537
Unseeded == [seeded |-> FALSE, state |-> 0]
Seeded(s) == [seeded |-> TRUE, state |-> SeedState(s)]

\* random.randint(lo, hi) on generator g: the values it may return.  `sample`
\* is the part of lo..hi explored when the generator is unseeded.
RandInt(g, lo, hi, sample) ==
    IF g.seeded THEN {lo + (g.state % (hi - lo + 1))} ELSE sample \cap (lo..hi)
Advance(g) == IF g.seeded THEN [g EXCEPT !.state = NextState(@)] ELSE g

\* The rolls explored for a threshold when the generator is unseeded: the
\* largest that fails the check and the smallest that passes it.
RollSample(threshold) == {threshold, threshold + 1}

\* The interaction count explored when the generator is unseeded.
CountSample == {MaxInteractionCount}

\* percent_roll_check: False when the roll is at most the threshold.
percent_roll_check(roll, threshold) == ~(roll <= threshold)

\* ------------------------------------------------------------ initial state
\* The locals of each function before it is entered, and a process that has
\* written nothing.
NoGenerateLocals ==
    /\ it = 0 /\ i = 0 /\ new_person = EmptyDict
    /\ new_tags = {} /\ tags_left = {} /\ tag = "" /\ kind = 0
    /\ tag_interactions = EmptyDict /\ friends = <<>>
    /\ number_of_friends = 0 /\ fit = 0
NoSamplerLocals ==
    /\ result = <<>> /\ number_of_items = 0 /\ drawn = 0
NoWriterLocals ==
    /\ error = ""
    /\ records_per_partition = 0 /\ dir_created = FALSE /\ ex_i = 0
    /\ files = EmptyDict /\ stdout = <<>>
    /\ run = 1 /\ first_files = EmptyDict
NoLocals ==
    /\ people = <<>>
    /\ NoGenerateLocals
    /\ from_list = <<>> /\ max_items = 0 /\ chance_is_empty = 0
    /\ NoSamplerLocals
    /\ index = 0 /\ pos = 0 /\ orig = <<>> /\ examined = <<>>
    /\ NoWriterLocals

\* The process as the command line starts it: nothing seeded, nothing written.
Init ==
    /\ pc = "main"
    /\ number_of_people \in 0..MaxMainN
    /\ random_seed \in 0..MaxSeed
    /\ number_of_partitions \in 0..MaxP
    /\ rng = Unseeded
    /\ fake = [stream |-> -1, issued |-> 0]
    /\ tags = SubSeq(Hashtags, 1, Min(NumTags, Len(Hashtags)))
    /\ NoLocals

\* ------------------------------------------------------------ command line
\* Variant: the check left out.
EvenlyDividesUnchecked(n, p) == TRUE
\* assert(args.N % args.Partitions == 0)
EvenlyDivides(n, p) == n % p = 0

\* __main__: the divisibility check, then execute().
Main ==
    /\ pc = "main"
    /\ IF number_of_partitions = 0
       THEN /\ pc' = "raised" /\ error' = "ZeroDivisionError"
            /\ UNCHANGED stdout
       ELSE IF ~EvenlyDivides(number_of_people, number_of_partitions)
       THEN /\ pc' = "raised" /\ error' = "ArgumentTypeError"
            /\ stdout' = Append(stdout, "does not evenly divide")
       ELSE /\ pc' = "execute"
            /\ UNCHANGED <<error, stdout>>
    /\ UNCHANGED <<argv, gen, people, gpLocals, griLocals, grfLocals,
                   records_per_partition, dir_created, ex_i, files, runs>>

\* execute(): Faker.seed, random.seed, then the call of generate_people.
Execute ==
    /\ pc = "execute"
    /\ fake' = [stream |-> random_seed, issued |-> 0]
    /\ rng' = Seeded(random_seed)
    /\ people' = <<>>
    /\ it' = 0
    /\ pc' = "gp_for"
    /\ UNCHANGED <<error, argv, tags, i, new_person, new_tags, tags_left, tag, kind,
                   tag_interactions, friends, number_of_friends, fit,
                   griLocals, grfLocals, exLocals, runs>>

\* --------------------------------------------------------- generate_people
\* Variant: a loop that increments i itself, as a C for loop would.
RangeNextFromI(counter, last_i) == IF counter = 0 THEN 0 ELSE last_i + 1
\* The value `for i in range(number_of_people)` binds next: the range's own
\* counter, whatever the inner loop left in i.
RangeNext(counter, last_i) == counter

\* "id": i + 1
PersonId(k) == k + 1

\* fake.unique.name(): the next name of the stream that was not given before.
UniqueName(f) == [stream |-> f.stream, n |-> f.issued + 1]

\* Variant: friends drawn as 0-based positions.
RandomFriendZeroBased(g, n) == RandInt(g, 0, n - 1, 0..(n - 1))
\* random.randint(1, number_of_people)
RandomFriend(g, n) == RandInt(g, 1, n, 1..n)

\* The elements a set's iterator may yield next: any of those left.
SetNext(left) == left

\* The head of the outer loop: a new person and the call of get_random_items,
\* or the return of the list (the frame's locals are gone) and the call of
\* generate_reciprocal_friends.
GpFor ==
    /\ pc = "gp_for"
    /\ IF it < number_of_people
       THEN IF fake.issued >= NumNames
            THEN /\ i' = RangeNext(it, i)
                 /\ it' = it + 1
                 /\ pc' = "raised" /\ error' = "UniquenessException"
                 /\ UNCHANGED <<fake, new_person, griLocals, grfLocals,
                                new_tags, tags_left, tag, kind, tag_interactions,
                                friends, number_of_friends, fit>>
            ELSE /\ i' = RangeNext(it, i)
                 /\ it' = it + 1
                 /\ new_person' = [id |-> PersonId(i'), name |-> UniqueName(fake)]
                 /\ fake' = [fake EXCEPT !.issued = @ + 1]
                 /\ from_list' = tags
                 /\ max_items' = TagsMaxItems
                 /\ chance_is_empty' = TagsChanceIsEmpty
                 /\ result' = <<>> /\ number_of_items' = 0 /\ drawn' = 0
                 /\ pc' = "gri_enter"
                 /\ UNCHANGED <<error, grfLocals>>
                 /\ UNCHANGED <<new_tags, tags_left, tag, kind,
                                tag_interactions, friends, number_of_friends, fit>>
       ELSE /\ pc' = "grf_for"
            /\ index' = 0 /\ pos' = 0
            /\ orig' = [k \in 1..Len(people) |-> people[k].friends]
            /\ examined' = [k \in 1..Len(people) |-> 0]
            /\ it' = 0 /\ i' = 0 /\ new_person' = EmptyDict
            /\ new_tags' = {} /\ tags_left' = {} /\ tag' = "" /\ kind' = 0
            /\ tag_interactions' = EmptyDict /\ friends' = <<>>
            /\ number_of_friends' = 0 /\ fit' = 0
            /\ UNCHANGED <<error, fake, griLocals>>
    /\ UNCHANGED <<argv, rng, tags, people, exLocals, runs>>

\* -------------------------------------------------------- get_random_items
\* return <set>: the frame's result, count and loop counter are gone; the
\* caller's new_tags = ... and tag_interactions = dict() follow.
GriReturn(s) ==
    /\ result' = <<>> /\ number_of_items' = 0 /\ drawn' = 0
    /\ new_tags' = s
    /\ tags_left' = s
    /\ tag_interactions' = EmptyDict
    /\ pc' = "gp_tags"

\* Variant: a count that may be 0.
NumberOfItemsFromZero(g, m) == RandInt(g, 0, m, 0..MaxDraws)
\* random.randint(1, max_items)
NumberOfItems(g, m) == RandInt(g, 1, m, 1..MaxDraws)

\* set(result)
ToSet(list) == Range(list)

\* The chance of an empty result, then the draw of the item count.
GriEnter ==
    /\ pc = "gri_enter"
    /\ \E roll \in IF chance_is_empty # 0
                   THEN RandInt(rng, 0, 100, RollSample(chance_is_empty))
                   ELSE {101} :
         LET rolled == chance_is_empty # 0
             g == IF rolled THEN Advance(rng) ELSE rng
         IN  IF rolled /\ ~percent_roll_check(roll, chance_is_empty)
             THEN /\ GriReturn({})
                  /\ rng' = g
             ELSE \E n \in NumberOfItems(g, max_items) :
                     /\ number_of_items' = n
                     /\ drawn' = 0
                     /\ result' = <<>>
                     /\ rng' = Advance(g)
                     /\ pc' = "gri_loop"
                     /\ UNCHANGED <<new_tags, tags_left, tag_interactions>>
    /\ UNCHANGED <<error, argv, fake, tags, people, it, i, new_person, tag, kind,
                   friends, number_of_friends, fit,
                   from_list, max_items, chance_is_empty,
                   grfLocals, exLocals, runs>>

\* for _ in range(number_of_items): one draw with replacement; then the return.
GriLoop ==
    /\ pc = "gri_loop"
    /\ IF drawn < number_of_items
       THEN IF Len(from_list) = 0
            THEN /\ pc' = "raised" /\ error' = "ValueError"
                 /\ UNCHANGED <<rng, result, drawn, number_of_items,
                                new_tags, tags_left, tag_interactions>>
            ELSE \E random_index \in RandInt(rng, 0, Len(from_list) - 1,
                                             0..(Len(from_list) - 1)) :
                     /\ result' = Append(result, from_list[random_index + 1])
                     /\ drawn' = drawn + 1
                     /\ rng' = Advance(rng)
                     /\ UNCHANGED <<pc, error, number_of_items, new_tags,
                                    tags_left, tag_interactions>>
       ELSE /\ GriReturn(ToSet(result))
            /\ UNCHANGED <<error, rng>>
    /\ UNCHANGED <<argv, fake, tags, people, it, i, new_person, tag, kind,
                   friends, number_of_friends, fit,
                   from_list, max_items, chance_is_empty,
                   grfLocals, exLocals, runs>>

\* ------------------------------------------- generate_people, after the call
\* for tag in new_tags: tag_interactions[tag] = dict(); after the last tag,
\* new_person["tags"], the empty friends list and the draw of the friend count.
GpTags ==
    /\ pc = "gp_tags"
    /\ IF tags_left # {}
       THEN \E t \in SetNext(tags_left) :
               /\ tag' = t
               /\ tags_left' = tags_left \ {t}
               /\ tag_interactions' = (t :> EmptyDict) @@ tag_interactions
               /\ kind' = 1
               /\ pc' = "gp_inter"
               /\ UNCHANGED <<rng, new_person, friends, number_of_friends, fit>>
       ELSE \E n \in RandInt(rng, 0, MaxNumberOfFriends, 0..MaxFriends) :
               /\ new_person' = ("tags" :> tag_interactions) @@ new_person
               /\ friends' = <<>>
               /\ number_of_friends' = n
               /\ fit' = 0
               /\ rng' = Advance(rng)
               /\ pc' = "gp_friends"
               /\ UNCHANGED <<tag, tags_left, tag_interactions, kind>>
    /\ UNCHANGED <<error, argv, fake, tags, people, it, i, new_tags,
                   griLocals, grfLocals, exLocals, runs>>

\* for interaction in ["liked", "posted"]: the roll that leaves the
\* interaction out, else its count.
GpInter ==
    /\ pc = "gp_inter"
    /\ \E roll \in RandInt(rng, 0, 100, RollSample(InteractionThreshold)) :
         LET g == Advance(rng) IN
         IF ~percent_roll_check(roll, InteractionThreshold)
         THEN /\ rng' = g
              /\ UNCHANGED tag_interactions
         ELSE \E count \in RandInt(g, 0, MaxInteractionCount, CountSample) :
                 /\ tag_interactions' =
                        [tag_interactions EXCEPT
                            ![tag] = (interactions[kind] :> count) @@ @]
                 /\ rng' = Advance(g)
    /\ kind' = kind + 1
    /\ pc' = IF kind = Len(interactions) THEN "gp_tags" ELSE "gp_inter"
    /\ UNCHANGED <<error, argv, fake, tags, people, it, i, new_person, new_tags,
                   tags_left, tag, friends, number_of_friends, fit,
                   griLocals, grfLocals, exLocals, runs>>

\* for i in range(number_of_friends): friends.append(randint(1, N)); after the
\* loop friends.remove(i) with its ValueError caught, new_person["friends"]
\* and people.append(new_person).
GpFriends ==
    /\ pc = "gp_friends"
    /\ IF fit < number_of_friends
       THEN \E f \in RandomFriend(rng, number_of_people) :
               /\ i' = fit
               /\ fit' = fit + 1
               /\ friends' = Append(friends, f)
               /\ rng' = Advance(rng)
               /\ UNCHANGED <<pc, people, new_person>>
       ELSE /\ friends' = RemoveFirst(friends, i)
            /\ new_person' = ("friends" :> friends') @@ new_person
            /\ people' = Append(people, new_person')
            /\ pc' = "gp_for"
            /\ UNCHANGED <<rng, i, fit>>
    /\ UNCHANGED <<error, argv, fake, tags, it, new_tags, tags_left, tag, kind,
                   tag_interactions, number_of_friends,
                   griLocals, grfLocals, exLocals, runs>>

\* --------------------------------------------- generate_reciprocal_friends
\* Variant: the append without the membership test.
ReciprocalAppendAlways(list, person_id) == Append(list, person_id)
\* if person_id not in friend["friends"]: friend["friends"].append(person_id)
ReciprocalAppend(list, person_id) ==
    IF person_id \notin Range(list) THEN Append(list, person_id) ELSE list

\* for index, person in enumerate(people): the next person, or the return.
GrfFor ==
    /\ pc = "grf_for"
    /\ IF index < Len(people)
       THEN /\ pos' = 0
            /\ pc' = "grf_friends"
       ELSE /\ pc' = "ex_setup"
            /\ UNCHANGED pos
    /\ UNCHANGED <<error, argv, gen, people, gpLocals, griLocals,
                   index, orig, examined, exLocals, runs>>

\* for friend_id in friends: the list is read as it is now, so entries
\* appended to it before its iterator ends are visited too.
GrfFriends ==
    /\ pc = "grf_friends"
    /\ LET person_id == index + 1
           list == people[index + 1].friends
       IN  IF pos < Len(list)
           THEN \E roll \in RandInt(rng, 0, 100, RollSample(ReciprocalThreshold)) :
                  LET friend_id == list[pos + 1]
                      friend == PyIndex(Len(people), friend_id - 1)
                  IN  /\ pos' = pos + 1
                      /\ examined' = [examined EXCEPT ![index + 1] = @ + 1]
                      /\ rng' = Advance(rng)
                      /\ IF ~percent_roll_check(roll, ReciprocalThreshold)
                         THEN UNCHANGED <<pc, error, people>>
                         ELSE IF friend = 0
                         THEN /\ pc' = "raised" /\ error' = "IndexError"
                              /\ UNCHANGED people
                         ELSE /\ people' =
                                    [people EXCEPT ![friend].friends =
                                        ReciprocalAppend(@, person_id)]
                              /\ UNCHANGED <<pc, error>>
                      /\ UNCHANGED index
           ELSE /\ index' = index + 1
                /\ pc' = "grf_for"
                /\ UNCHANGED <<error, rng, people, pos, examined>>
    /\ UNCHANGED <<argv, fake, tags, gpLocals, griLocals, orig, exLocals, runs>>

\* ----------------------------------------------------- execute, the writer
\* int(number_of_people / number_of_partitions)
RecordsPerPartition(n, p) == n \div p

\* Variant: the slice of the 1-based partition number.
StartIndexOfNext(k, per) == (k + 1) * per
\* start_index = i * records_per_partition
StartIndex(k, per) == k * per

\* f"{output_path}/{i+1}.json": the file is named by this number.
FileName(k) == k + 1

\* datetime.now() and getpass.getuser(): what the environment may answer.
Environments ==
    { [now |-> 1, user |-> "alice"], [now |-> 2, user |-> "bob"] }

\* generate_meta_data
generate_meta_data(env, number_of_records, seed, start_index, end_index) ==
    [ generated_at |-> [ local |-> [date |-> <<"date", env.now>>,
                                    time |-> <<"time", env.now>>],
                         timestamp |-> <<"utc", env.now>> ],
      records |-> [ index |-> [start |-> start_index, end |-> end_index],
                    number_of_records |-> number_of_records ],
      user |-> env.user,
      random_seed |-> seed ]

\* The document execute() dumps for partition k.
Partition(env, k) ==
    LET start_index == StartIndex(k, records_per_partition)
        end_index == start_index + records_per_partition
        people_in_partition == PySlice(people, start_index, end_index)
    IN  [ meta_data |-> generate_meta_data(env, Len(people_in_partition),
                                           random_seed, start_index, end_index - 1),
          data |-> people_in_partition ]

\* Variant: the error swallowed and the loop carried on.
OnWriteErrorContinue == "ex_for"
\* Where a failed open() or json.dump() leaves the run: the exception is not
\* caught.
OnWriteError == "raised"

\* records_per_partition, then Path(output_path).mkdir(parents, exist_ok).
ExMkdir ==
    /\ pc = "ex_setup"
    /\ records_per_partition' =
           RecordsPerPartition(number_of_people, number_of_partitions)
    /\ dir_created' = TRUE
    /\ ex_i' = 0
    /\ pc' = "ex_for"
    /\ UNCHANGED <<error, argv, gen, people, gpLocals, griLocals, grfLocals,
                   files, stdout, runs>>

\* mkdir fails: the message is printed and the exception raised again.
ExMkdirFail ==
    /\ pc = "ex_setup"
    /\ records_per_partition' =
           RecordsPerPartition(number_of_people, number_of_partitions)
    /\ stdout' = Append(stdout, "Could not create or access the path")
    /\ pc' = "raised"
    /\ error' = "mkdir"
    /\ UNCHANGED <<argv, gen, people, gpLocals, griLocals, grfLocals,
                   dir_created, ex_i, files, runs>>

\* One turn of for i in range(number_of_partitions): the file is written and
\* its meta data printed.
ExWrite ==
    /\ pc = "ex_for"
    /\ ex_i < number_of_partitions
    /\ \E env \in Environments :
          LET data == Partition(env, ex_i)
          IN  /\ files' = (FileName(ex_i) :> [complete |-> TRUE, json |-> data])
                              @@ files
              /\ stdout' = Append(stdout, data.meta_data)
    /\ ex_i' = ex_i + 1
    /\ UNCHANGED <<pc, error, argv, gen, people, gpLocals, griLocals, grfLocals,
                   records_per_partition, dir_created, runs>>

\* open() fails: no file of this partition.
ExOpenFail ==
    /\ pc = "ex_for"
    /\ ex_i < number_of_partitions
    /\ pc' = OnWriteError
    /\ error' = "open"
    /\ UNCHANGED <<argv, gen, people, gpLocals, griLocals, grfLocals,
                   exLocals, runs>>

\* json.dump() fails after open() created the file: a part of it is on disk.
ExDumpFail ==
    /\ pc = "ex_for"
    /\ ex_i < number_of_partitions
    /\ files' = (FileName(ex_i) :> [complete |-> FALSE]) @@ files
    /\ pc' = OnWriteError
    /\ error' = "dump"
    /\ UNCHANGED <<argv, gen, people, gpLocals, griLocals, grfLocals,
                   records_per_partition, dir_created, ex_i, stdout, runs>>

\* The loop is over: execute() returns and the process ends.
ExDone ==
    /\ pc = "ex_for"
    /\ ex_i >= number_of_partitions
    /\ pc' = "done"
    /\ UNCHANGED <<error, argv, gen, people, gpLocals, griLocals, grfLocals,
                   exLocals, runs>>

\* ---------------------------------------------------------- specifications
GenerateNext == GpFor \/ GriEnter \/ GriLoop \/ GpTags \/ GpInter \/ GpFriends
ReciprocalNext == GrfFor \/ GrfFriends
WriteNext == ExMkdir \/ ExMkdirFail \/ ExWrite \/ ExOpenFail \/ ExDumpFail \/ ExDone

\* A run of the command line.
Next == Main \/ Execute \/ GenerateNext \/ ReciprocalNext \/ WriteNext
Spec == Init /\ [][Next]_vars

\* generate_people and generate_reciprocal_friends called with the generators
\* unseeded: every outcome of the draws (within the samples) is explored.
InitGenerate ==
    /\ pc = "gp_for"
    /\ number_of_people \in 0..MaxN
    /\ random_seed = 0
    /\ number_of_partitions = 1
    /\ rng = Unseeded
    /\ fake = [stream |-> -1, issued |-> 0]
    /\ tags = SubSeq(Hashtags, 1, 1)
    /\ NoLocals
SpecGenerate == InitGenerate /\ [][GenerateNext \/ ReciprocalNext]_vars

\* Sequences over S of length at most n.
SeqsUpTo(S, n) == UNION {[1..k -> S] : k \in 0..n}

\* The friends list of person k in a list of <<person, friend>> entries.
FriendsIn(edges, k) ==
    LET IsOf(e) == e[1] = k
        own == SelectSeq(edges, IsOf)
    IN  [j \in 1..Len(own) |-> own[j][2]]

\* A person as generate_people leaves it, with the given friends.
PersonWith(k, list) ==
    [id |-> PersonId(k - 1), name |-> [stream |-> -1, n |-> k],
     tags |-> EmptyDict, friends |-> list]

\* generate_reciprocal_friends called on any friend graph with ids in 1..N
\* and at most MaxEdges entries; a list may repeat an id and hold its owner's.
InitRecip ==
    /\ pc = "grf_for"
    /\ number_of_people \in 0..MaxN
    /\ random_seed = 0
    /\ number_of_partitions = 1
    /\ rng = Unseeded
    /\ fake = [stream |-> -1, issued |-> 0]
    /\ tags = SubSeq(Hashtags, 1, 1)
    /\ \E n \in 0..MaxEdges :
          \E edges \in [1..n -> (1..number_of_people) \X (1..number_of_people)] :
             /\ \A j \in 1..(n - 1) : edges[j][1] <= edges[j + 1][1]
             /\ people = [k \in 1..number_of_people |->
                             PersonWith(k, FriendsIn(edges, k))]
             /\ orig = [k \in 1..number_of_people |-> FriendsIn(edges, k)]
    /\ examined = [k \in 1..number_of_people |-> 0]
    /\ index = 0 /\ pos = 0
    /\ NoGenerateLocals
    /\ from_list = <<>> /\ max_items = 0 /\ chance_is_empty = 0
    /\ NoSamplerLocals
    /\ NoWriterLocals
SpecRecip == InitRecip /\ [][ReciprocalNext]_vars

\* get_random_items called on any short list, with and without a chance of
\* an empty result.
SamplerItems == {"a", "b", "c"}
SamplerChances == {0, 50, 100}
InitSampler ==
    /\ pc = "gri_enter"
    /\ number_of_people = 0
    /\ random_seed = 0
    /\ number_of_partitions = 1
    /\ rng = Unseeded
    /\ fake = [stream |-> -1, issued |-> 0]
    /\ tags = SubSeq(Hashtags, 1, 1)
    /\ from_list \in SeqsUpTo(SamplerItems, MaxListLen)
    /\ max_items \in 1..MaxDraws
    /\ chance_is_empty \in SamplerChances
    /\ people = <<>>
    /\ NoGenerateLocals
    /\ NoSamplerLocals
    /\ index = 0 /\ pos = 0 /\ orig = <<>> /\ examined = <<>>
    /\ NoWriterLocals
SpecSampler == InitSampler /\ [][GriEnter \/ GriLoop]_vars

\* The command line run a second time with the same arguments, in a new
\* process: the files of the first run are kept aside for comparison.
Rerun ==
    /\ pc = "done"
    /\ run = 1
    /\ run' = 2
    /\ first_files' = files
    /\ pc' = "main"
    /\ rng' = Unseeded
    /\ fake' = [stream |-> -1, issued |-> 0]
    /\ error' = ""
    /\ people' = <<>> /\ it' = 0 /\ i' = 0 /\ new_person' = EmptyDict
    /\ new_tags' = {} /\ tags_left' = {} /\ tag' = "" /\ kind' = 0
    /\ tag_interactions' = EmptyDict /\ friends' = <<>>
    /\ number_of_friends' = 0 /\ fit' = 0
    /\ from_list' = <<>> /\ max_items' = 0 /\ chance_is_empty' = 0
    /\ result' = <<>> /\ number_of_items' = 0 /\ drawn' = 0
    /\ index' = 0 /\ pos' = 0 /\ orig' = <<>> /\ examined' = <<>>
    /\ records_per_partition' = 0 /\ dir_created' = FALSE /\ ex_i' = 0
    /\ files' = EmptyDict /\ stdout' = <<>>
    /\ UNCHANGED <<argv, tags>>
SpecTwoRuns == Init /\ [][Next \/ Rerun]_vars

\* ------------------------------------------------------------------ claims
GeneratePcs == {"gp_for", "gri_enter", "gri_loop", "gp_tags", "gp_inter", "gp_friends"}
ReciprocalPcs == {"grf_for", "grf_friends"}
Written == DOMAIN files

\* C1: when N mod P # 0 the run ends with the divisibility error before
\* execute() is entered: no person is generated, the output directory is not
\* created and no file is written.
PartitionValidation ==
    (number_of_partitions # 0 /\ number_of_people % number_of_partitions # 0)
        => /\ pc \in {"main", "raised"}
           /\ pc = "raised" => error = "ArgumentTypeError"
           /\ ~rng.seeded
           /\ people = <<>> /\ new_person = EmptyDict
           /\ ~dir_created
           /\ Written = {}
PartitionValidationWitness ==
    /\ pc = "raised" /\ error = "ArgumentTypeError"
    /\ number_of_people = 3 /\ number_of_partitions = 2
    /\ Written = {}

\* C2: a run that completes has written exactly the files 1 .. P; file k
\* holds the N/P persons at positions (k-1)*N/P .. k*N/P - 1 of the generated
\* list, in order, its meta data carries those bounds and that count, and the
\* files in order make up the generated list: each person once.
PartitionLayout ==
    pc = "done" =>
        LET per == number_of_people \div number_of_partitions
        IN  /\ number_of_people % number_of_partitions = 0
            /\ Len(people) = number_of_people
            /\ Written = 1..number_of_partitions
            /\ \A k \in Written :
                  /\ files[k].complete
                  /\ Len(files[k].json.data) = per
                  /\ \A j \in 1..per :
                        /\ files[k].json.data[j] = people[(k - 1) * per + j]
                        /\ files[k].json.data[j].id = (k - 1) * per + j
                  /\ files[k].json.meta_data.records.index.start = (k - 1) * per
                  /\ files[k].json.meta_data.records.index.end = k * per - 1
                  /\ files[k].json.meta_data.records.number_of_records = per
            /\ \A n \in 1..number_of_people :
                  Cardinality({<<k, j>> \in Written \X (1..per) :
                                  files[k].json.data[j].id = n}) = 1
PartitionLayoutWitness ==
    /\ pc = "done"
    /\ number_of_people = 4 /\ number_of_partitions = 2
    /\ files[2].json.meta_data.records.index.start = 2
    /\ files[2].json.meta_data.records.index.end = 3

\* The part of a written file that does not come from the clock or the user.
Reproducible(file) ==
    [ complete |-> file.complete,
      data |-> file.json.data,
      records |-> file.json.meta_data.records,
      random_seed |-> file.json.meta_data.random_seed ]

\* C3: a second run with the same seed, N and partition count writes the
\* same files as the first, but for the timestamp and the user.
SeedDeterminism ==
    (run = 2 /\ pc = "done") =>
        /\ Written = DOMAIN first_files
        /\ \A k \in Written : Reproducible(files[k]) = Reproducible(first_files[k])

\* C4: the persons of the list have the ids 1, 2, ... in list order, whatever
\* the inner loop left in i; generate_people returns N of them and
\* generate_reciprocal_friends changes neither their number nor an id.
PersonIds ==
    /\ \A k \in 1..Len(people) : people[k].id = k
    /\ pc \in GeneratePcs => Len(people) <= number_of_people
    /\ pc \in {"gri_enter", "gri_loop", "gp_tags", "gp_inter", "gp_friends"}
          => new_person.id = Len(people) + 1
    /\ pc \in ReciprocalPcs \cup {"ex_setup"} => Len(people) = number_of_people
PersonIdsWitness ==
    /\ pc = "ex_setup"
    /\ number_of_people = 3 /\ Len(people) = 3
    /\ Len(orig[1]) = 2 /\ Len(orig[2]) = 1
    /\ people[3].id = 3
    /\ \E k \in 1..3 : Len(people[k].friends) > Len(orig[k])

\* C5: every entry of every friends list, finished or being filled, is in
\* 1 .. N, so friend_id - 1 addresses a person of the list: it is neither
\* outside it nor negative.
FriendIdsValid ==
    /\ \A k \in 1..Len(people) :
          \A j \in 1..Len(people[k].friends) :
             people[k].friends[j] \in 1..number_of_people
    /\ \A j \in 1..Len(friends) : friends[j] \in 1..number_of_people
    /\ error # "IndexError"
    /\ (pc = "grf_friends" /\ pos < Len(people[index + 1].friends))
          => LET friend_index == people[index + 1].friends[pos + 1] - 1
             IN  0 <= friend_index /\ friend_index < Len(people)
FriendIdsValidWitness ==
    /\ pc = "grf_friends"
    /\ number_of_people = 3
    /\ index = 2 /\ pos = 1
    /\ Len(people[3].friends) = 3
    /\ Len(orig[3]) = 2
    /\ Len(people[1].friends) > Len(orig[1])

\* C6: with chance_is_empty = 0 and a source list that is not empty, the set
\* get_random_items returns is not empty, has at most max_items elements, at
\* most as many as were drawn, and all of them are in the source list.
SamplerBounds ==
    (chance_is_empty = 0 /\ Len(from_list) >= 1) =>
        /\ pc # "raised"
        /\ pc = "gri_loop" =>
              /\ number_of_items \in 1..max_items
              /\ Len(result) = drawn /\ drawn <= number_of_items
              /\ Range(result) \subseteq Range(from_list)
              /\ Cardinality(Range(result)) <= drawn
              /\ drawn = number_of_items => Range(result) # {}
        /\ pc = "gp_tags" =>
              /\ new_tags # {}
              /\ new_tags \subseteq Range(from_list)
              /\ Cardinality(new_tags) \in 1..max_items
SamplerBoundsWitness ==
    /\ pc = "gri_loop"
    /\ chance_is_empty = 0 /\ Len(from_list) = 3 /\ max_items = 3
    /\ number_of_items = 3 /\ drawn = 3
    /\ Cardinality(Range(result)) = 2

\* C7: the files are written one at a time in the order 1 .. P; when the
\* write of file k fails the run is over, with the files 1 .. k-1 on disk and
\* none after k; when mkdir fails the run is over with no file.
NonTransactionalWrites ==
    /\ pc = "ex_for" => Written = 1..ex_i
    /\ error \in {"open", "dump"} =>
          /\ pc = "raised"
          /\ ~ENABLED Next
          /\ \A k \in 1..ex_i : k \in Written /\ files[k].complete
          /\ \A k \in Written : k <= ex_i + 1
          /\ (ex_i + 1) \in Written => error = "dump" /\ ~files[ex_i + 1].complete
    /\ error = "mkdir" =>
          /\ pc = "raised"
          /\ ~ENABLED Next
          /\ ~dir_created
          /\ Written = {}
NonTransactionalWritesWitness ==
    /\ pc = "raised" /\ error = "open"
    /\ number_of_partitions = 3 /\ ex_i = 1
    /\ Written = {1}

\* The entries the pass appended to person k's list.
Appended(k) == SubSeq(people[k].friends, Len(orig[k]) + 1, Len(people[k].friends))

\* Every list keeps its original entries as a prefix; no id is appended twice
\* to a list or to a list that had it; an appended edge is the reverse of an
\* edge of the graph before the pass.
ReciprocityInvariant ==
    pc \in ReciprocalPcs \cup {"ex_setup"} =>
        \A k \in 1..Len(people) :
            /\ Len(orig[k]) <= Len(people[k].friends)
            /\ SubSeq(people[k].friends, 1, Len(orig[k])) = orig[k]
            /\ \A m \in 1..Len(Appended(k)) :
                  /\ Appended(k)[m] \notin Range(orig[k])
                  /\ \A n \in 1..Len(Appended(k)) :
                        Appended(k)[m] = Appended(k)[n] => m = n
                  /\ Appended(k)[m] \in 1..Len(people)
                  /\ k \in Range(orig[Appended(k)[m]])
\* A step of the pass does not go back to an earlier person, and either
\* changes no list or appends person_id to the list of the friend it visits,
\* which did not hold it.
ReciprocityStep ==
    pc \in ReciprocalPcs =>
        /\ index' >= index
        /\ \/ people' = people
           \/ /\ pc = "grf_friends" /\ pos < Len(people[index + 1].friends)
              /\ LET friend_id == people[index + 1].friends[pos + 1]
                 IN  /\ (index + 1) \notin Range(people[friend_id].friends)
                     /\ people' = [people EXCEPT ![friend_id].friends =
                                      Append(@, index + 1)]
\* C8: the pass visits the persons in id order; a step either changes no list
\* or appends person_id to the list of the friend it visits, and only when it
\* is not in it.  So every list keeps its original entries as a prefix, no id
\* is appended twice to a list, and every edge of the final graph was an edge
\* before the pass or is the reverse of one.
ReciprocityRule == []ReciprocityInvariant /\ [][ReciprocityStep]_vars
ReciprocityRuleWitness ==
    /\ pc = "ex_setup"
    /\ number_of_people = 3
    /\ orig[1] = <<2, 3>> /\ orig[2] = <<3>> /\ orig[3] = <<1>>
    /\ people[1].friends = <<2, 3>>
    /\ people[2].friends = <<3, 1>>
    /\ people[3].friends = <<1>>

\* C9: after generate_people no person's friends list holds that person's id.
NoSelfFriendship ==
    (pc = "grf_for" /\ index = 0) =>
        \A k \in 1..Len(people) : people[k].id \notin Range(people[k].friends)

\* The ids that are not in person k's list: what the pass may still append.
Missing(k) == (1..Len(people)) \ Range(people[k].friends)
RECURSIVE Unvisited(_)
\* An upper bound of the entries of the persons from k on that may be visited.
Unvisited(k) ==
    IF k > Len(people) THEN 0
    ELSE Len(people[k].friends) + Cardinality(Missing(k)) + 2 + Unvisited(k + 1)
\* What is left of the pass: it goes down with every step of it.
Measure ==
    IF pc = "grf_for" THEN Unvisited(index + 1)
    ELSE IF pc = "grf_friends"
    THEN (Len(people[index + 1].friends) - pos) + 1 + Unvisited(index + 2)
    ELSE 0

\* A step of the pass lowers the measure and leaves the list that is being
\* iterated as it is.
ReciprocalStepDecreases ==
    (pc \in ReciprocalPcs /\ pc' \in ReciprocalPcs) =>
        /\ Measure' < Measure
        /\ pc = "grf_friends" =>
              people'[index + 1].friends = people[index + 1].friends
\* The measure is never negative, the pass is never stuck, and when it is
\* over the entries visited of person k's list are the original ones and those
\* appended by the persons before k, which come before those appended later.
ReciprocalVisits ==
    /\ Measure >= 0
    /\ pc \in ReciprocalPcs => ENABLED ReciprocalNext
    /\ pc = "ex_setup" =>
          \A k \in 1..Len(people) :
             /\ examined[k] = Len(orig[k])
                    + Cardinality({m \in 1..Len(Appended(k)) : Appended(k)[m] < k})
             /\ \A m, n \in 1..Len(Appended(k)) :
                   m < n => Appended(k)[m] < Appended(k)[n]
\* C10: the pass ends: no step appends to the list that is being iterated,
\* and every step lowers a measure that is never negative.  The entries an
\* earlier person appended to a later person's list are visited, those
\* appended to an earlier person's list are not.
ReciprocalPassEnds == []ReciprocalVisits /\ [][ReciprocalStepDecreases]_vars
ReciprocalPassEndsWitness ==
    /\ pc = "ex_setup"
    /\ number_of_people = 3
    /\ orig[2] = <<2, 1>>
    /\ people[2].friends = <<2, 1, 3>>
    /\ \E k \in 1..3 : examined[k] > Len(orig[k])
    /\ \E k \in 1..3 : examined[k] < Len(people[k].friends)

====
